---- MODULE Spec2Model ----
(***************************************************************************)
(* RogueMon battle engine (MVP/backend/battle_engine.py): the move         *)
(* catalog, the combatants, one battle's turn resolution, the in-memory    *)
(* registry BATTLES and the capture endpoint, as served by Flask's         *)
(* threaded development server (app.py).                                   *)
(***************************************************************************)
EXTENDS Integers, Sequences, FiniteSets, TLC

(***************************************************************************)
(* Python floats.  A float is an IEEE-754 binary64 number; the engine only *)
(* produces non-negative finite ones.  A value is kept as a significand of *)
(* Precision bits, least significant bit first, and a binary exponent:     *)
(* value = (sum of m[i] * 2^(i-1)) * 2^e.  Every operation computes the    *)
(* exact result on bit strings and rounds it to nearest, ties to even.     *)
(***************************************************************************)
Precision == 53

Max2(a, b) == IF a >= b THEN a ELSE b

Min2(a, b) == IF a <= b THEN a ELSE b

RECURSIVE NatBits(_)
NatBits(n) == IF n = 0 THEN <<>> ELSE <<n % 2>> \o NatBits(n \div 2)

RECURSIVE BitsNat(_)
BitsNat(b) == IF b = <<>> THEN 0 ELSE b[1] + 2 * BitsNat(Tail(b))

Zeros(n) == [i \in 1..n |-> 0]

\* number of significant bits of a bit string (index of its highest 1)
BitLen(b) ==
  LET ones == {i \in 1..Len(b) : b[i] = 1}
  IN  IF ones = {} THEN 0 ELSE CHOOSE i \in ones : \A j \in ones : j <= i

BitAt(b, i) == IF i >= 1 /\ i <= Len(b) THEN b[i] ELSE 0

\* The bit-string operations bind their arguments to values first, and
\* compute carries in closed form or by halving, so that no evaluation nests
\* deeper than the logarithm of the string length.
BAddV(a, b) ==
  LET n == Max2(Len(a), Len(b)) + 1
      \* carry into position i: a lower position generates it and every
      \* position in between propagates it
      carry(i) == \E j \in 1..(i - 1) :
                     /\ BitAt(a, j) + BitAt(b, j) = 2
                     /\ \A k \in (j + 1)..(i - 1) : BitAt(a, k) + BitAt(b, k) = 1
  IN  <<>> \o [i \in 1..n |->
                 (BitAt(a, i) + BitAt(b, i) + (IF carry(i) THEN 1 ELSE 0)) % 2]

BAdd(a, b) == CHOOSE res \in {BAddV(va, vb) : va \in {a}, vb \in {b}} : TRUE

\* a - b for a >= b
BSubV(a, b) ==
  LET n == Max2(Len(a), Len(b))
      borrow(i) == \E j \in 1..(i - 1) :
                      /\ BitAt(a, j) < BitAt(b, j)
                      /\ \A k \in (j + 1)..(i - 1) : BitAt(a, k) = BitAt(b, k)
  IN  <<>> \o [i \in 1..n |->
                 (BitAt(a, i) - BitAt(b, i) - (IF borrow(i) THEN 1 ELSE 0) + 2) % 2]

BSub(a, b) == CHOOSE res \in {BSubV(va, vb) : va \in {a}, vb \in {b}} : TRUE

\* a >= b as naturals
BGeqV(a, b) ==
  LET n == Max2(Len(a), Len(b))
  IN  \A i \in 1..n :
        (BitAt(a, i) < BitAt(b, i)) =>
           \E j \in (i + 1)..n : BitAt(a, j) > BitAt(b, j)

BGeq(a, b) == \E va \in {a}, vb \in {b} : BGeqV(va, vb)

\* number of low zero bits of a bit string
LowZeros(b) ==
  LET ones == {i \in 1..Len(b) : b[i] = 1}
  IN  IF ones = {} THEN Len(b)
      ELSE (CHOOSE i \in ones : \A j \in ones : i <= j) - 1

\* a times the bits lo..hi of b, by halving the range
RECURSIVE BMulRange(_, _, _, _)
BMulRange(a, b, lo, hi) ==
  IF lo > hi THEN <<>>
  ELSE IF lo = hi THEN (IF b[lo] = 1 THEN Zeros(lo - 1) \o a ELSE <<>>)
  ELSE BAdd(BMulRange(a, b, lo, (lo + hi) \div 2),
            BMulRange(a, b, (lo + hi) \div 2 + 1, hi))

Ones(b) == Cardinality({i \in 1..Len(b) : b[i] = 1})

\* exact product; the factor with fewer one bits is the multiplier
BMulV(a, b) ==
  IF Ones(a) = 0 \/ Ones(b) = 0 THEN <<>>
  ELSE IF Ones(b) <= Ones(a) THEN BMulRange(a, b, LowZeros(b) + 1, BitLen(b))
  ELSE BMulRange(b, a, LowZeros(a) + 1, BitLen(a))

BMul(a, b) == CHOOSE res \in {BMulV(va, vb) : va \in {a}, vb \in {b}} : TRUE

\* 2^n mod k, by halving n
RECURSIVE Pow2Mod(_, _)
Pow2Mod(n, k) ==
  IF n = 0 THEN 1 % k
  ELSE IF n % 2 = 1 THEN (2 * Pow2Mod(n - 1, k)) % k
  ELSE (Pow2Mod(n \div 2, k) * Pow2Mod(n \div 2, k)) % k

\* the number written by the bits lo..hi of s, modulo k, by halving the range
RECURSIVE BitsMod(_, _, _, _)
BitsMod(s, lo, hi, k) ==
  IF lo > hi THEN 0
  ELSE IF lo = hi THEN s[lo] % k
  ELSE (BitsMod(s, (lo + hi) \div 2 + 1, hi, k) * Pow2Mod((lo + hi) \div 2 - lo + 1, k)
        + BitsMod(s, lo, (lo + hi) \div 2, k)) % k

\* long division of s by the natural k > 0: quotient bits and remainder
BDivNatV(s, k) ==
  [quot |-> <<>> \o [i \in 1..Len(s) |->
                       (2 * BitsMod(s, i + 1, Len(s), k) + s[i]) \div k],
   rem  |-> BitsMod(s, 1, Len(s), k)]

\* (a * 2^extra) divided by k
BDivNat(a, k, extra) == CHOOSE res \in {BDivNatV(vs, k) : vs \in {Zeros(extra) \o a}} : TRUE

FZero == [m |-> <<>>, e |-> 0]

\* round the exact value b * 2^e (plus a nonzero tail below it when sticky)
\* to Precision bits, to nearest, ties to even
RoundV(b, e, sticky) ==
  LET L == BitLen(b)
  IN  IF L = 0 THEN FZero
      ELSE IF L <= Precision
           THEN [m |-> Zeros(Precision - L) \o SubSeq(b, 1, L),
                 e |-> e - (Precision - L)]
      ELSE LET drop  == L - Precision
               kept  == SubSeq(b, drop + 1, L)
               guard == b[drop]
               rest  == sticky \/ \E i \in 1..(drop - 1) : b[i] = 1
               up    == guard = 1 /\ (rest \/ kept[1] = 1)
               inc   == BAdd(kept, <<1>>)
           IN  IF ~up THEN [m |-> kept, e |-> e + drop]
               ELSE IF inc[Precision + 1] = 1
                    THEN [m |-> SubSeq(inc, 2, Precision + 1), e |-> e + drop + 1]
                    ELSE [m |-> SubSeq(inc, 1, Precision), e |-> e + drop]

Round(b, e, sticky) == CHOOSE res \in {RoundV(vb, e, sticky) : vb \in {b}} : TRUE

FFromNat(n) == Round(NatBits(n), 0, FALSE)

FOne == FFromNat(1)

FMulV(x, y) == Round(BMul(x.m, y.m), x.e + y.e, FALSE)

FMul(x, y) == CHOOSE res \in {FMulV(vx, vy) : vx \in {x}, vy \in {y}} : TRUE

\* x / k for a float x and an int k > 0 (the int is converted exactly)
FDivNatV(x, k) ==
  LET extra == Len(NatBits(k)) + 2
      q     == BDivNat(x.m, k, extra)
  IN  IF x.m = <<>> THEN FZero ELSE Round(q.quot, x.e - extra, q.rem # 0)

FDivNat(x, k) == CHOOSE res \in {FDivNatV(vx, k) : vx \in {x}} : TRUE

\* both significands shifted to the smaller exponent
AlignE(x, y) == IF x.m = <<>> THEN y.e ELSE IF y.m = <<>> THEN x.e ELSE Min2(x.e, y.e)

AlignM(x, e0) == IF x.m = <<>> THEN <<>> ELSE Zeros(x.e - e0) \o x.m

FAddV(x, y) == Round(BAdd(AlignM(x, AlignE(x, y)), AlignM(y, AlignE(x, y))), AlignE(x, y), FALSE)

FAdd(x, y) == CHOOSE res \in {FAddV(vx, vy) : vx \in {x}, vy \in {y}} : TRUE

FGeqV(x, y) == BGeq(AlignM(x, AlignE(x, y)), AlignM(y, AlignE(x, y)))

FGeq(x, y) == \E vx \in {x}, vy \in {y} : FGeqV(vx, vy)

\* x - y for x >= y
FSubV(x, y) == Round(BSub(AlignM(x, AlignE(x, y)), AlignM(y, AlignE(x, y))), AlignE(x, y), FALSE)

FSub(x, y) == CHOOSE res \in {FSubV(vx, vy) : vx \in {x}, vy \in {y}} : TRUE

FMax(x, y) == IF FGeq(x, y) THEN x ELSE y

FMin(x, y) == IF FGeq(y, x) THEN x ELSE y

\* int(x): truncation of a non-negative float
FIntV(x) ==
  IF x.m = <<>> THEN 0
  ELSE IF x.e >= 0 THEN BitsNat(Zeros(x.e) \o x.m)
  ELSE IF -x.e >= Precision THEN 0
  ELSE BitsNat(SubSeq(x.m, 1 - x.e, Precision))

FInt(x) == CHOOSE res \in {FIntV(vx) : vx \in {x}} : TRUE

(***************************************************************************)
(* Data definitions                                                        *)
(***************************************************************************)
MOVE_DATA ==
  [tackle |-> [name |-> "Tackle", type |-> "Normal", power |-> 40,
               accuracy |-> 100, category |-> "Physical"],
   growl  |-> [name |-> "Growl", type |-> "Normal", power |-> 0,
               accuracy |-> 100, category |-> "Status"]]

STARTER_POKEMON ==
  [bulbasaur  |-> [name |-> "Bulbasaur", level |-> 5, max_hp |-> 45,
                   current_hp |-> 45, attack |-> 49, defense |-> 49,
                   speed |-> 45, moves |-> <<"tackle", "growl">>],
   charmander |-> [name |-> "Charmander", level |-> 5, max_hp |-> 39,
                   current_hp |-> 39, attack |-> 52, defense |-> 43,
                   speed |-> 65, moves |-> <<"tackle", "growl">>],
   squirtle   |-> [name |-> "Squirtle", level |-> 5, max_hp |-> 44,
                   current_hp |-> 44, attack |-> 48, defense |-> 65,
                   speed |-> 43, moves |-> <<"tackle", "growl">>]]

POKEDEX == [bulbasaur |-> 1, charmander |-> 4, squirtle |-> 7]

\* str.lower() on the display names of the roster
lower == [Bulbasaur |-> "bulbasaur", Charmander |-> "charmander",
          Squirtle |-> "squirtle"]

\* the "player" keys a client may send; "missingno" is not in STARTER_POKEMON
PlayerKeys == {"bulbasaur", "charmander", "squirtle", "missingno"}

\* move keys a client may send; "bogus" is not in MOVE_DATA
MoveKeys == {"tackle", "growl", "bogus"}

\* identifiers uuid4 may issue, and one it never issues
BattleIds == {"b1"}

RequestIds == BattleIds \cup {"b0"}

\* at most MaxGrowls Growls take effect in one battle
MaxGrowls == 1

\* random.randint(1, 100): the accuracy draws at both ends of the range, the
\* capture draws at both ends and on both sides of the odds
AccuracyRolls == {1, 100}

CaptureRolls == {1, 90, 91, 100}

(***************************************************************************)
(* Domain model                                                            *)
(***************************************************************************)
\* the longest run of turns one battle is followed for
MaxTurns == 24

\* attack_modifier starts at 1.0 and is only ever multiplied by 0.75 (line
\* 123): it is kept as the number of multiplications, exp, and ModFloat is the
\* float the code holds after them
ModOne == [exp |-> 0]

\* the floats 1.0, 1.0 * 0.75, 1.0 * 0.75 * 0.75, ... up to n multiplications
RECURSIVE DecaySeq(_)
DecaySeq(n) ==
  IF n = 0 THEN <<FOne>>
  ELSE CHOOSE res \in {Append(prev, FMul(prev[Len(prev)], FDivNat(FFromNat(3), 4))) :
                         prev \in {DecaySeq(n - 1)}} : TRUE

decay_memo == DecaySeq(Max2(MaxGrowls, MaxTurns))

ModFloat(am) == decay_memo[am.exp + 1]

Pokemon(data) ==
  [name |-> data.name, level |-> data.level, max_hp |-> data.max_hp,
   current_hp |-> data.current_hp, attack |-> data.attack,
   defense |-> data.defense, speed |-> data.speed, moves |-> data.moves,
   attack_modifier |-> ModOne]

\* apply_damage without the clamp at 0
apply_damage_unclamped(pk, damage) ==
  [pk EXCEPT !.current_hp = pk.current_hp - damage]

apply_damage(pk, damage) ==
  [pk EXCEPT !.current_hp = Max2(pk.current_hp - damage, 0)]

\* apply_stat_change if the product were computed and not stored
apply_stat_change_not_stored(pk, move_name) == pk

apply_stat_change(pk, move_name) ==
  IF move_name = "Growl"
  THEN [pk EXCEPT !.attack_modifier = [exp |-> pk.attack_modifier.exp + 1]]
  ELSE pk

is_fainted(pk) == pk.current_hp <= 0

\* Battle.__init__; capture_resolved is the attribute capture_pokemon sets
\* later: the empty sequence stands for "no such attribute yet"
Battle(player_data, enemy_data) ==
  [player |-> Pokemon(player_data), enemy |-> Pokemon(enemy_data),
   log |-> <<>>, resolving |-> FALSE, capture_resolve |-> FALSE,
   capture_resolved |-> <<>>]

\* getattr(battle, "capture_resolved", False)
GetCaptureResolved(b) ==
  IF b.capture_resolved = <<>> THEN FALSE ELSE b.capture_resolved[1]

\* calculate_damage without the early return for a move of power 0
calculate_damage_no_early_return(attacker, defender, move) ==
  LET attack_stat  == FMul(FFromNat(attacker.attack),
                           ModFloat(attacker.attack_modifier))
      defense_stat == defender.defense
      base_damage  ==
        FAdd(FDivNat(FMul(FMul(FMul(FDivNat(FFromNat(2 * attacker.level), 5),
                                    FFromNat(2)),
                               FFromNat(move.power)),
                          FDivNat(attack_stat, Max2(1, defense_stat))),
                     50),
             FFromNat(2))
  IN  FInt(base_damage)

\* calculate_damage without the constant 2 of line 142
calculate_damage_no_constant(attacker, defender, move) ==
  IF move.power = 0 THEN 0
  ELSE LET attack_stat  == FMul(FFromNat(attacker.attack),
                                ModFloat(attacker.attack_modifier))
           defense_stat == defender.defense
           base_damage  ==
             FDivNat(FMul(FMul(FMul(FDivNat(FFromNat(2 * attacker.level), 5),
                                    FFromNat(2)),
                               FFromNat(move.power)),
                          FDivNat(attack_stat, Max2(1, defense_stat))),
                     50)
       IN  FInt(base_damage)

\* Battle.calculate_damage, in float arithmetic as Python evaluates it
calculate_damage(attacker, defender, move) ==
  IF move.power = 0 THEN 0
  ELSE LET attack_stat  == FMul(FFromNat(attacker.attack),
                                ModFloat(attacker.attack_modifier))
           defense_stat == defender.defense
           base_damage  ==
             FAdd(FDivNat(FMul(FMul(FMul(FDivNat(FFromNat(2 * attacker.level), 5),
                                         FFromNat(2)),
                                    FFromNat(move.power)),
                               FDivNat(attack_stat, Max2(1, defense_stat))),
                          50),
                  FFromNat(2))
       IN  FInt(base_damage)

Species == DOMAIN STARTER_POKEMON

Modifiers == {[exp |-> n] : n \in 0..MaxGrowls}

\* what calculate_damage reads of the attacker
AttackView(pk) ==
  [attack |-> pk.attack, level |-> pk.level, attack_modifier |-> pk.attack_modifier]

\* calculate_damage evaluated once for each argument the roster can supply
\* under the given attack modifiers
DamageTable(modifiers) ==
  [at \in {AttackView([Pokemon(STARTER_POKEMON[s]) EXCEPT !.attack_modifier = am]) :
             s \in Species, am \in modifiers},
   df \in {STARTER_POKEMON[s].defense : s \in Species},
   pw \in {MOVE_DATA[k].power : k \in DOMAIN MOVE_DATA} |->
     calculate_damage(at, [defense |-> df], [power |-> pw])]

damage_memo == DamageTable(Modifiers)

Other(side) == IF side = "player" THEN "enemy" ELSE "player"

\* the three message formats of take_turn; two lines are the same string
\* exactly when the records are equal
MissLine(actor, move) ==
  [kind |-> "missed", actor |-> actor.name, move |-> move.name,
   target |-> "", damage |-> 0]

DamageLine(actor, move, target, damage) ==
  [kind |-> "took damage", actor |-> actor.name, move |-> move.name,
   target |-> target.name, damage |-> damage]

GrowlLine(actor, target) ==
  [kind |-> "attack fell", actor |-> actor.name, move |-> "Growl",
   target |-> target.name, damage |-> 0]

\* line 164 if it looked at the target alone
SkippedTargetOnly(b, side) == is_fainted(b[Other(side)])

\* take_turn, line 164: the action of `side` is skipped
Skipped(b, side) == is_fainted(b[side]) \/ is_fainted(b[Other(side)])

\* lines 172-178 if the log were assigned the new line, not appended to
MoveEffectRewritesLog(b, side, move, damage) ==
  IF move.category = "Physical"
  THEN [b EXCEPT ![Other(side)] = apply_damage(b[Other(side)], damage),
                 !.log = <<DamageLine(b[side], move, b[Other(side)], damage)>>]
  ELSE IF move.category = "Status" /\ move.name = "Growl"
  THEN [b EXCEPT ![Other(side)] = apply_stat_change(b[Other(side)], move.name),
                 !.log = <<GrowlLine(b[side], b[Other(side)])>>]
  ELSE b

\* take_turn, lines 172-178: the effect of a move that hit
MoveEffect(b, side, move, damage) ==
  IF move.category = "Physical"
  THEN [b EXCEPT ![Other(side)] = apply_damage(b[Other(side)], damage),
                 !.log = Append(b.log, DamageLine(b[side], move, b[Other(side)], damage))]
  ELSE IF move.category = "Status" /\ move.name = "Growl"
  THEN [b EXCEPT ![Other(side)] = apply_stat_change(b[Other(side)], move.name),
                 !.log = Append(b.log, GrowlLine(b[side], b[Other(side)]))]
  ELSE b

\* the attack modifiers a battle of up to MaxTurns turns can hold
DeepModifiers == {[exp |-> n] : n \in 0..MaxTurns}

\* take_turn, line 173: the damage a Physical move of `side` deals now; past
\* MaxGrowls Growls it is read from the table a long battle carries along
DamageNow(b, side, move) ==
  IF b[side].attack_modifier \in Modifiers
  THEN damage_memo[AttackView(b[side]), b[Other(side)].defense, move.power]
  ELSE b.damage_table[AttackView(b[side]), b[Other(side)].defense, move.power]

\* take_turn, lines 164-178: one pass of the loop body
Act(b, side, move, roll) ==
  IF Skipped(b, side) THEN b
  ELSE IF roll > move.accuracy
       THEN [b EXCEPT !.log = Append(b.log, MissLine(b[side], move))]
       ELSE MoveEffect(b, side, move, DamageNow(b, side, move))

\* the order if the tie went to the enemy
FirstSideStrict(b) == IF b.player.speed > b.enemy.speed THEN "player" ELSE "enemy"

\* take_turn, line 159: who acts first
FirstSide(b) == IF b.player.speed >= b.enemy.speed THEN "player" ELSE "enemy"

MoveOf(side, player_move, enemy_move) ==
  IF side = "player" THEN player_move ELSE enemy_move

\* take_turn, first pass of the loop: the faster side's action
FirstAct(b, player_move_name, enemy_move_name, roll1) ==
  Act(b, FirstSide(b),
      MoveOf(FirstSide(b), MOVE_DATA[player_move_name], MOVE_DATA[enemy_move_name]),
      roll1)

\* take_turn, second pass of the loop, on the battle the first pass left
SecondAct(b, player_move_name, enemy_move_name, roll2) ==
  Act(b, Other(FirstSide(b)),
      MoveOf(Other(FirstSide(b)), MOVE_DATA[player_move_name], MOVE_DATA[enemy_move_name]),
      roll2)

\* Battle.take_turn for two keys of MOVE_DATA and the two accuracy rolls
take_turn(b, player_move_name, enemy_move_name, roll1, roll2) ==
  SecondAct(FirstAct(b, player_move_name, enemy_move_name, roll1),
            player_move_name, enemy_move_name, roll2)

\* get_result if it looked at the player before the enemy
get_result_player_first(b) ==
  IF is_fainted(b.player) THEN "lose"
  ELSE IF is_fainted(b.enemy) THEN "win"
  ELSE "ongoing"

get_result(b) ==
  IF is_fainted(b.enemy) THEN "win"
  ELSE IF is_fainted(b.player) THEN "lose"
  ELSE "ongoing"

SerializePokemon(pk) ==
  [name |-> pk.name, max_hp |-> pk.max_hp, current_hp |-> pk.current_hp,
   attack_modifier |-> pk.attack_modifier]

serialize(b) ==
  [player |-> SerializePokemon(b.player), enemy |-> SerializePokemon(b.enemy),
   status |-> get_result(b), message_log |-> b.log]

\* lines 268-273 if every line were kept
DedupeNone(lines) == lines

\* battle_turn, lines 268-273
RECURSIVE Dedupe(_)
Dedupe(lines) ==
  IF Len(lines) <= 1 THEN lines
  ELSE LET front == Dedupe(SubSeq(lines, 1, Len(lines) - 1))
       IN  IF front[Len(front)] # lines[Len(lines)]
           THEN Append(front, lines[Len(lines)]) ELSE front

\* dict.get: the value under the key, None for a key that is absent
Get(dict, key) == IF key \in DOMAIN dict THEN dict[key] ELSE "None"

\* an entry of serialize() with its pokedex id added
WithPokedexId(entry) ==
  [name |-> entry.name, max_hp |-> entry.max_hp, current_hp |-> entry.current_hp,
   attack_modifier |-> entry.attack_modifier,
   pokedex_id |-> Get(POKEDEX, lower[entry.name])]

\* the payload of /battle/start and /battle/turn: serialize() with the id, the
\* delta log and the two pokedex ids added
Payload(b, battle_id, turn_log) ==
  [player |-> WithPokedexId(serialize(b).player),
   enemy |-> WithPokedexId(serialize(b).enemy),
   status |-> serialize(b).status, message_log |-> serialize(b).message_log,
   battle_id |-> battle_id, turn_log |-> turn_log]

\* the odds if line 314 took the remaining share of the HP, not the missing one
capture_chance_remaining_ratio(enemy) ==
  LET max_hp == Max2(1, enemy.max_hp)
      cur_hp == Max2(0, enemy.current_hp)
      missing_ratio == FDivNat(FFromNat(cur_hp), max_hp)
  IN  Min2(95, 35 + FInt(FMul(FMax(FZero, FMin(FOne, missing_ratio)), FFromNat(55))))

\* capture_pokemon, lines 309-315
capture_chance(enemy) ==
  LET max_hp == Max2(1, enemy.max_hp)
      cur_hp == Max2(0, enemy.current_hp)
      missing_ratio == FSub(FOne, FDivNat(FFromNat(cur_hp), max_hp))
  IN  Min2(95, 35 + FInt(FMul(FMax(FZero, FMin(FOne, missing_ratio)), FFromNat(55))))

\* capture_chance evaluated once for a fainted enemy of each species
chance_memo ==
  [mx \in {STARTER_POKEMON[s].max_hp : s \in Species}, cur \in {0} |->
     capture_chance([max_hp |-> mx, current_hp |-> cur])]

\* capture_pokemon, lines 323-333
Captured(enemy) ==
  [key |-> lower[enemy.name], name |-> enemy.name,
   pokedex_id |-> Get(POKEDEX, lower[enemy.name]),
   level |-> enemy.level, max_hp |-> enemy.max_hp, current_hp |-> enemy.max_hp,
   moves |-> enemy.moves]

(***************************************************************************)
(* State                                                                   *)
(***************************************************************************)
VARIABLES
  BATTLES,  \* the registry: battle id -> Battle
  resp,     \* the response to the request answered last
  rolls,    \* history: capture rolls drawn so far, per battle id
  thr,      \* the request each server thread is handling, and where it is
  served,   \* history: requests the threaded server has accepted so far
  probe     \* arguments and result of one evaluation of the capture odds

vars == <<BATTLES, resp, rolls, thr, served, probe>>

\* app.run(debug=True) serves each request on a thread of its own
Threads == {"t1", "t2"}

Idle ==
  [pc |-> "idle", battle_id |-> "", player_move |-> "", enemy_move |-> "",
   before_len |-> 0, out |-> <<>>]

NoResp == [op |-> "none", battle_id |-> "", move |-> "", code |-> 0, body |-> <<>>]

NoProbe == [pc |-> "none", enemy |-> <<>>, chance |-> 0, roll |-> 0, success |-> FALSE]

\* a request and its response: endpoint, the id and the move the client sent,
\* status code, JSON body
Reply(op, battle_id, move, code, body) ==
  [op |-> op, battle_id |-> battle_id, move |-> move, code |-> code, body |-> body]

\* the late payload if it carried the whole log as its turn_log
LatePayloadWholeLog(battle, battle_id) == Payload(battle, battle_id, battle.log)

\* battle_turn, lines 251-257: the payload of a call on a finished battle
LatePayload(battle, battle_id) == Payload(battle, battle_id, <<>>)

\* the finally block if it also dropped a finished battle from the registry
ReleasedAndEvicted(registry, battle_id) ==
  IF battle_id \in DOMAIN registry
  THEN IF get_result(registry[battle_id]) # "ongoing"
       THEN [id \in DOMAIN registry \ {battle_id} |-> registry[id]]
       ELSE [registry EXCEPT ![battle_id].resolving = FALSE]
  ELSE registry

\* the exit of battle_turn if nothing cleared the guard
ReleasedNever(registry, battle_id) == registry

\* battle_turn, lines 285-287: the finally block
Released(registry, battle_id) ==
  IF battle_id \in DOMAIN registry
  THEN [registry EXCEPT ![battle_id].resolving = FALSE]
  ELSE registry

\* an early return that left out its status code, which Flask takes as 200
RejectCaptureNoStatus(battle_id, code) ==
  /\ resp' = Reply("capture", battle_id, "", 200, [success |-> FALSE])
  /\ UNCHANGED <<BATTLES, rolls>>

\* an early return that marked the capture as resolved all the same
RejectCaptureMarks(battle_id, code) ==
  /\ resp' = Reply("capture", battle_id, "", code, [success |-> FALSE])
  /\ BATTLES' = IF battle_id \in DOMAIN BATTLES
                THEN [BATTLES EXCEPT ![battle_id].capture_resolved = <<TRUE>>]
                ELSE BATTLES
  /\ UNCHANGED rolls

\* capture_pokemon, lines 299-307: an early return, which touches nothing
RejectCapture(battle_id, code) ==
  /\ resp' = Reply("capture", battle_id, "", code, [success |-> FALSE])
  /\ UNCHANGED <<BATTLES, rolls>>

\* line 320 if it set the attribute Battle.__init__ creates, capture_resolve
MarkCaptureResolve(battle) == [battle EXCEPT !.capture_resolve = TRUE]

\* capture_pokemon, line 320
MarkCaptureResolved(battle) == [battle EXCEPT !.capture_resolved = <<TRUE>>]

WithinBounds(b) ==
  b.player.attack_modifier.exp + b.enemy.attack_modifier.exp <= MaxGrowls

Init ==
  /\ BATTLES = <<>>
  /\ resp = NoResp
  /\ rolls = [id \in BattleIds |-> 0]
  /\ thr = [t \in Threads |-> Idle]
  /\ served = 0
  /\ probe = NoProbe

(***************************************************************************)
(* The endpoints, one request at a time                                    *)
(***************************************************************************)
\* start_battle if the Pokemon built for a species were kept and handed to
\* every later battle of that species, not built anew from the template
StartBattleSharedPokemon(player_name) ==
  /\ UNCHANGED <<rolls, thr, served, probe>>
  /\ IF player_name \notin DOMAIN STARTER_POKEMON
     THEN /\ resp' = Reply("start", "", "", 500, [error |-> "KeyError"])
          /\ UNCHANGED BATTLES
     ELSE \E enemy_name \in Species, battle_id \in BattleIds \ DOMAIN BATTLES :
            LET fresh  == Battle(STARTER_POKEMON[player_name], STARTER_POKEMON[enemy_name])
                kept   == {id \in DOMAIN BATTLES :
                             BATTLES[id].player.name = fresh.player.name}
                battle == IF kept = {} THEN fresh
                          ELSE [fresh EXCEPT !.player = BATTLES[CHOOSE id \in kept : TRUE].player]
            IN  /\ BATTLES' = [id \in DOMAIN BATTLES \cup {battle_id} |->
                                 IF id = battle_id THEN battle ELSE BATTLES[id]]
                /\ resp' = Reply("start", battle_id, "", 200,
                                 Payload(battle, battle_id, <<>>))

\* POST /battle/start
StartBattle(player_name) ==
  /\ UNCHANGED <<rolls, thr, served, probe>>
  /\ IF player_name \notin DOMAIN STARTER_POKEMON
     THEN \* KeyError at line 218
          /\ resp' = Reply("start", "", "", 500, [error |-> "KeyError"])
          /\ UNCHANGED BATTLES
     ELSE \E enemy_name \in Species, battle_id \in BattleIds \ DOMAIN BATTLES :
            LET battle == Battle(STARTER_POKEMON[player_name], STARTER_POKEMON[enemy_name])
            IN  /\ BATTLES' = [id \in DOMAIN BATTLES \cup {battle_id} |->
                                 IF id = battle_id THEN battle ELSE BATTLES[id]]
                /\ resp' = Reply("start", battle_id, "", 200,
                                 Payload(battle, battle_id, <<>>))

\* battle_turn, lines 259-287, for a known move key
ResolveTurn(battle, battle_id, player_move, enemy_move, roll1, roll2) ==
  LET before_len == Len(battle.log)
      after      == take_turn([battle EXCEPT !.resolving = TRUE],
                              player_move, enemy_move, roll1, roll2)
      turn_log   == Dedupe(SubSeq(after.log, before_len + 1, Len(after.log)))
  IN  /\ WithinBounds(FirstAct(battle, player_move, enemy_move, roll1))
      /\ WithinBounds(after)
      /\ BATTLES' = Released([BATTLES EXCEPT ![battle_id] = after], battle_id)
      /\ resp' = Reply("turn", battle_id, player_move, 200,
                       Payload(after, battle_id, turn_log))

\* POST /battle/turn
BattleTurn(battle_id, player_move) ==
  /\ UNCHANGED <<rolls, thr, served, probe>>
  /\ IF battle_id \notin DOMAIN BATTLES
     THEN /\ resp' = Reply("turn", battle_id, player_move, 404,
                           [error |-> "Battle not found"])
          /\ UNCHANGED BATTLES
     ELSE LET battle == BATTLES[battle_id]
          IN  IF battle.resolving
              THEN /\ resp' = Reply("turn", battle_id, player_move, 409,
                                    [error |-> "Turn in progress"])
                   /\ UNCHANGED BATTLES
              ELSE IF get_result(battle) # "ongoing"
              THEN /\ resp' = Reply("turn", battle_id, player_move, 200,
                                    LatePayload(battle, battle_id))
                   /\ UNCHANGED BATTLES
              ELSE IF player_move \notin DOMAIN MOVE_DATA
              THEN \* KeyError in take_turn, line 155; the finally block runs
                   /\ resp' = Reply("turn", battle_id, player_move, 500,
                                    [error |-> "KeyError"])
                   /\ BATTLES' = Released([BATTLES EXCEPT ![battle_id].resolving = TRUE],
                                          battle_id)
              ELSE \E i \in 1..Len(battle.enemy.moves), roll1 \in AccuracyRolls, roll2 \in AccuracyRolls :
                     ResolveTurn(battle, battle_id, player_move,
                                 battle.enemy.moves[i], roll1, roll2)

\* POST /battle/capture
CapturePokemon(battle_id) ==
  /\ UNCHANGED <<thr, served, probe>>
  /\ IF battle_id \notin DOMAIN BATTLES
     THEN RejectCapture(battle_id, 404)
     ELSE LET battle == BATTLES[battle_id]
              enemy  == battle.enemy
          IN  IF get_result(battle) # "win"
              THEN RejectCapture(battle_id, 400)
              ELSE IF GetCaptureResolved(battle)
              THEN RejectCapture(battle_id, 409)
              ELSE \E roll \in CaptureRolls :
                     LET chance  == chance_memo[Max2(1, enemy.max_hp), Max2(0, enemy.current_hp)]
                         success == roll <= chance
                     IN  /\ rolls' = [rolls EXCEPT ![battle_id] = @ + 1]
                         /\ BATTLES' = [BATTLES EXCEPT ![battle_id] =
                                                       MarkCaptureResolved(battle)]
                         /\ resp' = Reply("capture", battle_id, "", 200,
                                          IF success
                                          THEN [success |-> TRUE, captured |-> Captured(enemy)]
                                          ELSE [success |-> FALSE])

Next ==
  \/ \E player_name \in PlayerKeys : StartBattle(player_name)
  \/ \E battle_id \in RequestIds, player_move \in MoveKeys : BattleTurn(battle_id, player_move)
  \/ \E battle_id \in RequestIds : CapturePokemon(battle_id)

Spec == Init /\ [][Next]_vars

(***************************************************************************)
(* The endpoints on the threaded server: a request advances one group of   *)
(* statements at a time, and the requests of other threads run in between  *)
(***************************************************************************)
\* the battle the threads work on has seen at most MaxPrefix turns before
MaxPrefix == 8

\* the threaded server accepts at most MaxRequests requests in one run
MaxRequests == 2

\* the battle after k sequential /battle/turn requests that all chose Tackle
RECURSIVE TurnsPlayed(_, _)
TurnsPlayed(b, k) ==
  IF k = 0 THEN b
  ELSE LET prev == TurnsPlayed(b, k - 1)
       IN  IF get_result(prev) # "ongoing" THEN prev
           ELSE take_turn(prev, "tackle", "tackle", 1, 1)

\* the phases of battle_turn after its early returns
TurnPcs == {"guard", "check1", "apply1", "check2", "apply2", "payload", "finally"}

\* take_turn, line 163: the actor of the pass the thread is in
ActingSide(b, pc) ==
  IF pc \in {"check1", "apply1"} THEN FirstSide(b) ELSE Other(FirstSide(b))

\* take_turn, line 163: what follows the pass the thread is in
NextPc(pc) == IF pc \in {"check1", "apply1"} THEN "check2" ELSE "payload"

\* battle_turn, lines 238-257: the request is read and the early returns taken
ReceiveTurn(t, battle_id, player_move) ==
  /\ thr[t].pc = "idle"
  /\ served < MaxRequests
  /\ served' = served + 1
  /\ UNCHANGED <<BATTLES, rolls, probe>>
  /\ IF battle_id \notin DOMAIN BATTLES
     THEN /\ resp' = Reply("turn", battle_id, player_move, 404,
                           [error |-> "Battle not found"])
          /\ UNCHANGED thr
     ELSE IF BATTLES[battle_id].resolving
     THEN /\ resp' = Reply("turn", battle_id, player_move, 409,
                           [error |-> "Turn in progress"])
          /\ UNCHANGED thr
     ELSE IF get_result(BATTLES[battle_id]) # "ongoing"
     THEN /\ resp' = Reply("turn", battle_id, player_move, 200,
                           LatePayload(BATTLES[battle_id], battle_id))
          /\ UNCHANGED thr
     ELSE /\ thr' = [thr EXCEPT ![t] = [Idle EXCEPT !.pc = "guard",
                                                    !.battle_id = battle_id,
                                                    !.player_move = player_move]]
          /\ UNCHANGED resp

\* battle_turn, lines 259-262, and take_turn, lines 155-161
SetGuard(t) ==
  /\ thr[t].pc = "guard"
  /\ LET id     == thr[t].battle_id
         battle == BATTLES[id]
         known  == thr[t].player_move \in DOMAIN MOVE_DATA
     IN  /\ BATTLES' = [BATTLES EXCEPT ![id].resolving = TRUE]
         /\ \E i \in 1..Len(battle.enemy.moves) :
              thr' = [thr EXCEPT ![t].before_len = Len(battle.log),
                                 ![t].enemy_move = battle.enemy.moves[i],
                                 ![t].pc = IF known THEN "check1" ELSE "finally",
                                 ![t].out = IF known THEN <<>>
                                            ELSE <<Reply("turn", id, thr[t].player_move,
                                                         500, [error |-> "KeyError"])>>]
  /\ UNCHANGED <<resp, rolls, served, probe>>

\* take_turn, lines 164-170: the fainted check and the accuracy roll of a pass
CheckAct(t) ==
  /\ thr[t].pc \in {"check1", "check2"}
  /\ LET id     == thr[t].battle_id
         battle == BATTLES[id]
         side   == ActingSide(battle, thr[t].pc)
         move   == MOVE_DATA[MoveOf(side, thr[t].player_move, thr[t].enemy_move)]
     IN  IF Skipped(battle, side)
         THEN /\ thr' = [thr EXCEPT ![t].pc = NextPc(thr[t].pc)]
              /\ UNCHANGED BATTLES
         ELSE \E roll \in AccuracyRolls :
                IF roll > move.accuracy
                THEN /\ BATTLES' = [BATTLES EXCEPT ![id].log =
                                      Append(@, MissLine(battle[side], move))]
                     /\ thr' = [thr EXCEPT ![t].pc = NextPc(thr[t].pc)]
                ELSE /\ thr' = [thr EXCEPT ![t].pc =
                                  IF thr[t].pc = "check1" THEN "apply1" ELSE "apply2"]
                     /\ UNCHANGED BATTLES
  /\ UNCHANGED <<resp, rolls, served, probe>>

\* take_turn, lines 172-178: the move of a pass takes effect
ApplyAct(t) ==
  /\ thr[t].pc \in {"apply1", "apply2"}
  /\ LET id     == thr[t].battle_id
         battle == BATTLES[id]
         side   == ActingSide(battle, thr[t].pc)
         move   == MOVE_DATA[MoveOf(side, thr[t].player_move, thr[t].enemy_move)]
         after  == MoveEffect(battle, side, move, DamageNow(battle, side, move))
     IN  /\ WithinBounds(after)
         /\ BATTLES' = [BATTLES EXCEPT ![id] = after]
  /\ thr' = [thr EXCEPT ![t].pc = NextPc(thr[t].pc)]
  /\ UNCHANGED <<resp, rolls, served, probe>>

\* battle_turn, lines 265-284: the delta log and the payload
BuildPayload(t) ==
  /\ thr[t].pc = "payload"
  /\ LET id       == thr[t].battle_id
         battle   == BATTLES[id]
         turn_log == Dedupe(SubSeq(battle.log, thr[t].before_len + 1, Len(battle.log)))
     IN  thr' = [thr EXCEPT ![t].pc = "finally",
                            ![t].out = <<Reply("turn", id, thr[t].player_move, 200,
                                               Payload(battle, id, turn_log))>>]
  /\ UNCHANGED <<BATTLES, resp, rolls, served, probe>>

\* battle_turn, lines 285-287, after which the response or the error leaves
Finally(t) ==
  /\ thr[t].pc = "finally"
  /\ BATTLES' = Released(BATTLES, thr[t].battle_id)
  /\ resp' = thr[t].out[1]
  /\ thr' = [thr EXCEPT ![t] = Idle]
  /\ UNCHANGED <<rolls, served, probe>>

\* capture_pokemon, lines 297-307: the request is read and the checks made
ReceiveCapture(t, battle_id) ==
  /\ thr[t].pc = "idle"
  /\ served < MaxRequests
  /\ served' = served + 1
  /\ UNCHANGED probe
  /\ IF battle_id \notin DOMAIN BATTLES
     THEN RejectCapture(battle_id, 404) /\ UNCHANGED thr
     ELSE IF get_result(BATTLES[battle_id]) # "win"
     THEN RejectCapture(battle_id, 400) /\ UNCHANGED thr
     ELSE IF GetCaptureResolved(BATTLES[battle_id])
     THEN RejectCapture(battle_id, 409) /\ UNCHANGED thr
     ELSE /\ thr' = [thr EXCEPT ![t] = [Idle EXCEPT !.pc = "capture",
                                                    !.battle_id = battle_id]]
          /\ UNCHANGED <<BATTLES, resp, rolls>>

\* capture_pokemon, lines 309-343: the odds, the roll, the flag, the response
ResolveCapture(t) ==
  /\ thr[t].pc = "capture"
  /\ LET id    == thr[t].battle_id
         enemy == BATTLES[id].enemy
     IN  \E roll \in CaptureRolls :
           LET chance  == chance_memo[Max2(1, enemy.max_hp), Max2(0, enemy.current_hp)]
               success == roll <= chance
           IN  /\ rolls' = [rolls EXCEPT ![id] = @ + 1]
               /\ BATTLES' = [BATTLES EXCEPT ![id] = MarkCaptureResolved(BATTLES[id])]
               /\ resp' = Reply("capture", id, "", 200,
                                IF success
                                THEN [success |-> TRUE, captured |-> Captured(enemy)]
                                ELSE [success |-> FALSE])
  /\ thr' = [thr EXCEPT ![t] = Idle]
  /\ UNCHANGED <<served, probe>>

\* a battle that sequential requests have brought to any point of its course
InitThreads ==
  /\ \E player_name \in Species, enemy_name \in Species, k \in 0..MaxPrefix :
       BATTLES = [id \in BattleIds |->
                    TurnsPlayed(Battle(STARTER_POKEMON[player_name],
                                       STARTER_POKEMON[enemy_name]), k)]
  /\ resp = NoResp
  /\ rolls = [id \in BattleIds |-> 0]
  /\ thr = [t \in Threads |-> Idle]
  /\ served = 0
  /\ probe = NoProbe

NextThreads ==
  \/ \E t \in Threads, battle_id \in RequestIds, player_move \in MoveKeys :
       ReceiveTurn(t, battle_id, player_move)
  \/ \E t \in Threads : SetGuard(t)
  \/ \E t \in Threads : CheckAct(t)
  \/ \E t \in Threads : ApplyAct(t)
  \/ \E t \in Threads : BuildPayload(t)
  \/ \E t \in Threads : Finally(t)
  \/ \E t \in Threads, battle_id \in RequestIds : ReceiveCapture(t, battle_id)
  \/ \E t \in Threads : ResolveCapture(t)

SpecThreads == InitThreads /\ [][NextThreads]_vars

(***************************************************************************)
(* The capture odds on their own                                           *)
(***************************************************************************)
\* an enemy of every species at every HP from 0 to its maximum
OddsInputs ==
  UNION {{[max_hp |-> STARTER_POKEMON[s].max_hp, current_hp |-> hp] :
            hp \in 0..STARTER_POKEMON[s].max_hp} : s \in Species}

InitOdds ==
  /\ BATTLES = <<>>
  /\ resp = NoResp
  /\ rolls = [id \in BattleIds |-> 0]
  /\ thr = [t \in Threads |-> Idle]
  /\ served = 0
  /\ \E enemy \in OddsInputs : probe = [NoProbe EXCEPT !.pc = "odds", !.enemy = enemy]

\* capture_pokemon, lines 309-315, on the enemy of the probe
ComputeOdds ==
  /\ probe.pc = "odds"
  /\ \E chance \in {capture_chance(probe.enemy)} :
       probe' = [probe EXCEPT !.pc = "roll", !.chance = chance]
  /\ UNCHANGED <<BATTLES, resp, rolls, thr, served>>

\* capture_pokemon, lines 317-318
DrawRoll ==
  /\ probe.pc = "roll"
  /\ \E roll \in CaptureRolls :
       probe' = [probe EXCEPT !.pc = "done", !.roll = roll,
                              !.success = roll <= probe.chance]
  /\ UNCHANGED <<BATTLES, resp, rolls, thr, served>>

NextOdds == ComputeOdds \/ DrawRoll

SpecOdds == InitOdds /\ [][NextOdds]_vars

(***************************************************************************)
(* calculate_damage and get_result on their own                            *)
(***************************************************************************)
\* the stats tried: those of the roster, and 0 and 1
StatValues ==
  {0, 1} \cup {STARTER_POKEMON[s].attack : s \in Species}
         \cup {STARTER_POKEMON[s].defense : s \in Species}

InitDamage ==
  /\ BATTLES = <<>>
  /\ resp = NoResp
  /\ rolls = [id \in BattleIds |-> 0]
  /\ thr = [t \in Threads |-> Idle]
  /\ served = 0
  /\ \E s \in Species, attack \in StatValues, am \in Modifiers,
        defense \in StatValues, key \in DOMAIN MOVE_DATA :
       probe = [pc |-> "damage",
                attacker |-> [attack |-> attack, level |-> STARTER_POKEMON[s].level,
                              attack_modifier |-> am],
                defender |-> [defense |-> defense],
                move |-> MOVE_DATA[key], damage |-> 0]

\* take_turn, line 173, on the attacker, the defender and the move of the probe
ComputeDamage ==
  /\ probe.pc = "damage"
  /\ \E damage \in {calculate_damage(probe.attacker, probe.defender, probe.move)} :
       probe' = [probe EXCEPT !.pc = "damage done", !.damage = damage]
  /\ UNCHANGED <<BATTLES, resp, rolls, thr, served>>

NextDamage == ComputeDamage

SpecDamage == InitDamage /\ [][NextDamage]_vars

\* a battle of any two species with any HP from 0 to the maximum on each side
InitResult ==
  /\ BATTLES = <<>>
  /\ resp = NoResp
  /\ rolls = [id \in BattleIds |-> 0]
  /\ thr = [t \in Threads |-> Idle]
  /\ served = 0
  /\ \E player_name \in Species, enemy_name \in Species :
       \E player_hp \in 0..STARTER_POKEMON[player_name].max_hp,
          enemy_hp \in 0..STARTER_POKEMON[enemy_name].max_hp :
         probe = [pc |-> "result",
                  battle |-> [Battle(STARTER_POKEMON[player_name],
                                     STARTER_POKEMON[enemy_name])
                                EXCEPT !.player.current_hp = player_hp,
                                       !.enemy.current_hp = enemy_hp],
                  result |-> ""]

\* battle_turn, line 251, and capture_pokemon, line 304: get_result is asked
EvaluateResult ==
  /\ probe.pc = "result"
  /\ probe' = [probe EXCEPT !.pc = "result done", !.result = get_result(probe.battle)]
  /\ UNCHANGED <<BATTLES, resp, rolls, thr, served>>

NextResult == EvaluateResult

SpecResult == InitResult /\ [][NextResult]_vars

(***************************************************************************)
(* One battle played to its end by a client that always sends the same     *)
(* move                                                                    *)
(***************************************************************************)
\* a new battle of any pairing, and the move the client will send every turn;
\* the battle carries calculate_damage evaluated once for every argument its
\* turns can supply
InitPlay ==
  /\ BATTLES = <<>>
  /\ resp = NoResp
  /\ rolls = [id \in BattleIds |-> 0]
  /\ thr = [t \in Threads |-> Idle]
  /\ served = 0
  /\ \E damage_table \in {DamageTable(DeepModifiers)} :
       \E player_name \in Species, enemy_name \in Species,
          player_move \in DOMAIN MOVE_DATA :
         probe = [pc |-> "play", player_move |-> player_move, turns |-> 0,
                  battle |-> Battle(STARTER_POKEMON[player_name],
                                    STARTER_POKEMON[enemy_name])
                               @@ [damage_table |-> damage_table]]

\* battle_turn past its early returns: one more turn of the battle.  The log
\* is emptied after the turn: neither take_turn nor get_result reads it.
PlayTurn ==
  /\ probe.pc = "play"
  /\ get_result(probe.battle) = "ongoing"
  /\ probe.turns < MaxTurns
  /\ \E i \in 1..Len(probe.battle.enemy.moves),
        roll1 \in AccuracyRolls, roll2 \in AccuracyRolls :
       probe' = [probe EXCEPT
                   !.turns = @ + 1,
                   !.battle = [take_turn(probe.battle, probe.player_move,
                                         probe.battle.enemy.moves[i], roll1, roll2)
                                 EXCEPT !.log = <<>>]]
  /\ UNCHANGED <<BATTLES, resp, rolls, thr, served>>

NextPlay == PlayTurn

SpecPlay == InitPlay /\ [][NextPlay]_vars

(***************************************************************************)
(* Two battles in the registry                                             *)
(***************************************************************************)
\* an identifier uuid4 issued to an earlier battle
EarlierIds == {"b2"}

\* the battle started in the run is followed until its log has MaxLines lines
MaxLines == 2

\* the earlier battle is in its last turns: it has seen MaxPrefix turns, or one
\* turn less
LastTurns == {k \in 0..MaxPrefix : k + 1 >= MaxPrefix}

RegistryWithinBounds(registry) ==
  \A id \in BattleIds \cap DOMAIN registry : Len(registry[id].log) <= MaxLines

\* the registry holds an earlier battle, and the next id is still to be issued
InitRegistry ==
  /\ \E player_name \in Species, enemy_name \in Species, k \in LastTurns :
       BATTLES = [id \in EarlierIds |->
                    TurnsPlayed(Battle(STARTER_POKEMON[player_name],
                                       STARTER_POKEMON[enemy_name]), k)]
  /\ resp = NoResp
  /\ rolls = [id \in BattleIds \cup EarlierIds |-> 0]
  /\ thr = [t \in Threads |-> Idle]
  /\ served = 0
  /\ probe = NoProbe

\* the endpoints, one request at a time, with well-formed requests that name
\* either battle; the id still to be issued is unknown until the start
NextRegistry ==
  /\ \/ \E player_name \in Species : StartBattle(player_name)
     \/ \E battle_id \in BattleIds \cup EarlierIds, player_move \in DOMAIN MOVE_DATA :
          BattleTurn(battle_id, player_move)
     \/ \E battle_id \in BattleIds \cup EarlierIds : CapturePokemon(battle_id)
  /\ RegistryWithinBounds(BATTLES')

SpecRegistry == InitRegistry /\ [][NextRegistry]_vars

(***************************************************************************)
(* Properties                                                              *)
(***************************************************************************)
\* C1: in every reachable state both combatants of every battle have
\* 0 <= current_hp <= max_hp, whatever start, turn and capture requests came.
C1_HpWithinRange ==
  \A id \in DOMAIN BATTLES : \A side \in {"player", "enemy"} :
    /\ 0 <= BATTLES[id][side].current_hp
    /\ BATTLES[id][side].current_hp <= BATTLES[id][side].max_hp

\* a battle was started, fought until the enemy fainted, and a capture rolled
C1_Witness ==
  \E id \in DOMAIN BATTLES :
    /\ BATTLES[id].enemy.current_hp = 0
    /\ BATTLES[id].player.current_hp < BATTLES[id].player.max_hp
    /\ rolls[id] >= 1

\* C2: once the result of a battle is win it is win in every later state,
\* once lose it is lose in every later state, whatever requests follow.
C2_ResultAbsorbing ==
  [][\A id \in DOMAIN BATTLES :
       get_result(BATTLES[id]) # "ongoing"
       => get_result(BATTLES'[id]) = get_result(BATTLES[id])]_vars

\* C3: a turn request on a battle that is already won or lost returns the
\* current state with an empty turn_log and changes nothing, every time.
C3_LateTurnChangesNothing ==
  [][\A id \in DOMAIN BATTLES :
       (get_result(BATTLES[id]) # "ongoing" /\ resp'.op = "turn" /\ resp'.battle_id = id)
       => /\ BATTLES' = BATTLES
          /\ rolls' = rolls
          /\ resp'.code = 200
          /\ resp'.body.turn_log = <<>>
          /\ resp'.body = Payload(BATTLES[id], id, <<>>)]_vars

\* a late call was answered: a finished battle, no line in the turn_log
C3_Witness ==
  /\ resp.op = "turn"
  /\ resp.code = 200
  /\ resp.body.status \in {"win", "lose"}
  /\ resp.body.turn_log = <<>>

\* C4: under any interleaving of overlapping turn requests for one battle at
\* most one request is between setting and clearing the resolving guard.
C4_OneResolutionAtATime ==
  \A id \in BattleIds :
    Cardinality({t \in Threads : /\ thr[t].pc \in TurnPcs \ {"guard"}
                                 /\ thr[t].battle_id = id}) <= 1

\* C5: whenever no turn request is in flight for a battle of the registry its
\* resolving flag is false, also after a resolution that failed on an unknown
\* move key, and no turn request is answered "Turn in progress" because of an
\* earlier call that has finished.
C5_GuardReleased ==
  /\ \A id \in DOMAIN BATTLES :
       (\A t \in Threads : ~(thr[t].pc \in TurnPcs /\ thr[t].battle_id = id))
       => ~BATTLES[id].resolving
  /\ resp.op = "turn" => resp.code # 409

\* a resolution failed on an unknown move key and the guard is clear
C5_Witness ==
  /\ resp.op = "turn"
  /\ resp.code = 500
  /\ resp.battle_id \in DOMAIN BATTLES
  /\ ~BATTLES[resp.battle_id].resolving

\* C6: in a resolved turn the player's action comes before the enemy's iff
\* player.speed >= enemy.speed, whatever the random draws were.  The two lines
\* of the turn_log are told apart by the actor's name when the species differ,
\* else by the move the client sent when the two moves differ.
C6_PlayerFirstIffNotSlower ==
  [][\A id \in DOMAIN BATTLES :
       (resp'.op = "turn" /\ resp'.battle_id = id /\ resp'.code = 200)
       => LET log    == resp'.body.turn_log
              battle == BATTLES[id]
          IN  (Len(log) = 2 /\ (log[1].actor # log[2].actor \/ log[1].move # log[2].move))
              => ((IF log[1].actor # log[2].actor
                   THEN log[1].actor = battle.player.name
                   ELSE log[1].move = MOVE_DATA[resp'.move].name)
                  <=> battle.player.speed >= battle.enemy.speed)]_vars

\* a turn between two of one species, equal in speed, in which one side used
\* Tackle and the other Growl
C6_Witness ==
  /\ resp.op = "turn"
  /\ resp.code = 200
  /\ resp.body.player.name = resp.body.enemy.name
  /\ Len(resp.body.turn_log) = 2
  /\ resp.body.turn_log[1].move # resp.body.turn_log[2].move

\* C7: a capture request on a battle that is not won is answered 400 and
\* leaves the battle as it was: no roll, the flag still false; and a capture
\* request on a won battle whose flag is false is let through.
C7_CaptureNotAllowed ==
  [][\A id \in DOMAIN BATTLES :
       (resp'.op = "capture" /\ resp'.battle_id = id)
       => /\ get_result(BATTLES[id]) # "win"
             => /\ resp'.code = 400
                /\ resp'.body = [success |-> FALSE]
                /\ BATTLES' = BATTLES
                /\ rolls' = rolls
                /\ ~GetCaptureResolved(BATTLES'[id])
          /\ (get_result(BATTLES[id]) = "win" /\ ~GetCaptureResolved(BATTLES[id]))
             => /\ resp'.code = 200
                /\ rolls'[id] = rolls[id] + 1]_vars

\* a capture request on a battle that is not won was turned down
C7_Witness ==
  /\ resp.op = "capture"
  /\ resp.code = 400
  /\ resp.battle_id \in DOMAIN BATTLES
  /\ get_result(BATTLES[resp.battle_id]) # "win"

\* C8: after one capture attempt on a won battle has completed, every later
\* capture request for that battle is answered 409, without a capture record
\* and without another roll.
C8_CaptureAlreadyResolved ==
  [][\A id \in DOMAIN BATTLES :
       (rolls[id] >= 1 /\ resp'.op = "capture" /\ resp'.battle_id = id)
       => /\ resp'.code = 409
          /\ resp'.body = [success |-> FALSE]
          /\ rolls' = rolls
          /\ BATTLES' = BATTLES]_vars

\* a second capture request was turned down after the first had rolled
C8_Witness ==
  /\ resp.op = "capture"
  /\ resp.code = 409
  /\ rolls[resp.battle_id] = 1

\* C9: under any interleaving of overlapping capture requests for one won
\* battle at most one capture roll is drawn for it.
C9_OneCaptureRoll == \A id \in BattleIds : rolls[id] <= 1

C11_TerminalBattleRemoved ==
  \A id \in DOMAIN BATTLES :
    /\ get_result(BATTLES[id]) # "lose"
    /\ ~(get_result(BATTLES[id]) = "win" /\ rolls[id] >= 1)

\* C12: a battle whose turn response reported win is still in the registry and
\* still won, it stays there while no capture has been attempted, and a capture
\* request on it is then let through, never answered 404.
C12_WonBattleAddressable ==
  [][\A id \in DOMAIN BATTLES :
       /\ (/\ resp'.op = "turn" /\ resp'.battle_id = id /\ resp'.code = 200
           /\ resp'.body.status = "win")
          => (id \in DOMAIN BATTLES' /\ get_result(BATTLES'[id]) = "win")
       /\ (get_result(BATTLES[id]) = "win" /\ rolls[id] = 0)
          => /\ id \in DOMAIN BATTLES'
             /\ (resp'.op = "capture" /\ resp'.battle_id = id) => resp'.code = 200]_vars

\* the first capture request on a won battle was let through
C12_Witness ==
  /\ resp.op = "capture"
  /\ resp.code = 200
  /\ resp.battle_id \in DOMAIN BATTLES
  /\ get_result(BATTLES[resp.battle_id]) = "win"
  /\ rolls[resp.battle_id] = 1

\* C13: a turn or capture request with a battle id that is not in the registry
\* is answered 404 and leaves the registry and every stored battle unchanged.
C13_BattleNotFound ==
  [][(resp'.op \in {"turn", "capture"} /\ resp'.battle_id \notin DOMAIN BATTLES)
     => /\ resp'.code = 404
        /\ BATTLES' = BATTLES
        /\ rolls' = rolls]_vars

\* a request for an unknown id was turned down while a battle was going on
C13_Witness ==
  /\ resp.code = 404
  /\ resp.battle_id \notin DOMAIN BATTLES
  /\ \E id \in DOMAIN BATTLES : Len(BATTLES[id].log) > 0

\* C14: a turn request on an ongoing battle with a move key that is not in
\* MOVE_DATA fails and leaves the battle exactly as it was (HP, attack
\* modifiers, log, guard), still ongoing and still in the registry; a valid
\* turn request that follows it resolves as usual.
C14_UnknownMove ==
  [][\A id \in DOMAIN BATTLES :
       (resp'.op = "turn" /\ resp'.battle_id = id /\ get_result(BATTLES[id]) = "ongoing")
       => /\ resp'.move \notin DOMAIN MOVE_DATA
             => /\ resp'.code = 500
                /\ BATTLES' = BATTLES
                /\ rolls' = rolls
          /\ (/\ resp'.move \in DOMAIN MOVE_DATA
              /\ resp.op = "turn" /\ resp.battle_id = id /\ resp.code = 500)
             => /\ resp'.code = 200
                /\ Len(resp'.body.turn_log) >= 1
                /\ Len(BATTLES'[id].log) > Len(BATTLES[id].log)]_vars

\* an unknown move key was turned down in the middle of an ongoing battle
C14_Witness ==
  /\ resp.op = "turn"
  /\ resp.code = 500
  /\ resp.battle_id \in DOMAIN BATTLES
  /\ get_result(BATTLES[resp.battle_id]) = "ongoing"
  /\ Len(BATTLES[resp.battle_id].log) > 0

\* C15: if the first action of a turn takes its target to 0 HP, the second
\* combatant does not act in that turn: the first actor is exactly as before
\* and the log has grown by the one line of the first action.
C15_FaintedDoesNotAct ==
  [][\A id \in DOMAIN BATTLES :
       (resp'.op = "turn" /\ resp'.battle_id = id /\ resp'.code = 200)
       => LET first  == IF BATTLES[id].player.speed >= BATTLES[id].enemy.speed
                        THEN "player" ELSE "enemy"
              second == IF first = "player" THEN "enemy" ELSE "player"
          IN  (BATTLES[id][second].current_hp > 0 /\ BATTLES'[id][second].current_hp = 0)
              => /\ BATTLES'[id][first] = BATTLES[id][first]
                 /\ Len(BATTLES'[id].log) = Len(BATTLES[id].log) + 1
                 /\ Len(resp'.body.turn_log) = 1]_vars

\* the slower side was knocked out by the first action of the last turn
C15_Witness ==
  /\ resp.op = "turn"
  /\ resp.code = 200
  /\ Len(resp.body.turn_log) = 1
  /\ resp.body.status = "lose"
  /\ resp.body.enemy.current_hp < resp.body.enemy.max_hp

\* C16: calculate_damage returns 0 for a move of power 0 whatever the stats,
\* and otherwise floor(((2*level/5*2) * power * (attack*modifier /
\* max(1, defense))) / 50 + 2), the same value every time, a defense of 0
\* counting as 1.
C16_DamageFormula ==
  probe.pc = "damage done"
  => probe.damage =
       IF probe.move.power = 0 THEN 0
       ELSE (4 * probe.attacker.level * probe.move.power * probe.attacker.attack
               * 3 ^ probe.attacker.attack_modifier.exp)
              \div (250 * (IF probe.defender.defense < 1 THEN 1
                           ELSE probe.defender.defense)
                        * 4 ^ probe.attacker.attack_modifier.exp)
            + 2

\* Tackle by a full-strength attacker on a defender of defense 0
C16_Witness ==
  /\ probe.pc = "damage done"
  /\ probe.move.power > 0
  /\ probe.defender.defense = 0
  /\ probe.attacker.attack > 1
  /\ probe.damage > 2

\* C18: get_result is win iff the enemy's current_hp is 0, lose iff the enemy
\* has HP left and the player's current_hp is 0, ongoing iff both have HP
\* left; with both at 0 it is win.
C18_ResultOfHp ==
  probe.pc = "result done"
  => LET player_hp == probe.battle.player.current_hp
         enemy_hp  == probe.battle.enemy.current_hp
     IN  /\ probe.result = "win" <=> enemy_hp = 0
         /\ probe.result = "lose" <=> (enemy_hp > 0 /\ player_hp = 0)
         /\ probe.result = "ongoing" <=> (enemy_hp > 0 /\ player_hp > 0)
         /\ (enemy_hp = 0 /\ player_hp = 0) => probe.result = "win"

\* get_result was asked of a battle in which both sides have fainted
C18_Witness ==
  /\ probe.pc = "result done"
  /\ probe.battle.player.current_hp = 0
  /\ probe.battle.enemy.current_hp = 0
  /\ probe.result = "win"

C19_TurnLogIsDedupedDelta ==
  [][\A id \in DOMAIN BATTLES :
       (resp'.op = "turn" /\ resp'.battle_id = id /\ resp'.code = 200)
       => LET old      == BATTLES[id].log
              new      == BATTLES'[id].log
              delta    == SubSeq(new, Len(old) + 1, Len(new))
              turn_log == resp'.body.turn_log
          IN  /\ Len(delta) <= 2
              /\ turn_log = IF Len(delta) = 2 /\ delta[1] = delta[2]
                            THEN <<delta[1]>> ELSE delta
              /\ \A i \in 1..(Len(turn_log) - 1) : turn_log[i] # turn_log[i + 1]
              /\ resp'.body.message_log = new]_vars

\* two of one species traded the same Tackle: two equal lines in the log, one
\* in the turn_log
C19_Witness ==
  /\ resp.op = "turn"
  /\ resp.code = 200
  /\ Len(resp.body.turn_log) = 1
  /\ Len(resp.body.message_log) = 2
  /\ resp.body.message_log[1] = resp.body.message_log[2]

\* C20: the log of a battle in an earlier state is a prefix of its log in
\* every later state, whatever request came in between.
C20_LogAppendOnly ==
  [][\A id \in DOMAIN BATTLES :
       /\ id \in DOMAIN BATTLES'
       /\ Len(BATTLES'[id].log) >= Len(BATTLES[id].log)
       /\ SubSeq(BATTLES'[id].log, 1, Len(BATTLES[id].log)) = BATTLES[id].log]_vars

\* a battle of several turns, with a failed call behind it or not, whose
\* capture has been rolled
C20_Witness ==
  \E id \in DOMAIN BATTLES :
    /\ Len(BATTLES[id].log) >= 4
    /\ rolls[id] >= 1

\* C21: battles are independent.  A turn or a capture request that names one
\* battle id leaves every other battle of the registry as it was (HP,
\* modifiers, log, guard, capture flag), also when the two battles are of the
\* same species; a start request leaves every battle already there as it was,
\* and the battle it adds has both combatants at full HP with attack modifier
\* 1, an empty log and the result ongoing, whatever happened in the battles
\* before it.
C21_BattlesIndependent ==
  [][/\ \A id \in DOMAIN BATTLES :
          (resp'.op = "start" \/ resp'.battle_id # id)
            => (id \in DOMAIN BATTLES' /\ BATTLES'[id] = BATTLES[id])
     /\ \A id \in DOMAIN BATTLES' \ DOMAIN BATTLES :
          /\ resp'.op = "start"
          /\ \A side \in {"player", "enemy"} :
               /\ BATTLES'[id][side].current_hp = BATTLES'[id][side].max_hp
               /\ BATTLES'[id][side].attack_modifier = ModOne
          /\ BATTLES'[id].log = <<>>
          /\ get_result(BATTLES'[id]) = "ongoing"
          /\ ~BATTLES'[id].resolving
          /\ ~GetCaptureResolved(BATTLES'[id])]_vars

\* C21 witness: two battles with the same player species and the same enemy
\* species, each with turns behind it and at different HP, of which the
\* earlier one was won and its capture rolled after the later one was started
C21_Witness ==
  /\ DOMAIN BATTLES = BattleIds \cup EarlierIds
  /\ \E id \in BattleIds, earlier \in EarlierIds :
       /\ BATTLES[id].player.name = BATTLES[earlier].player.name
       /\ BATTLES[id].enemy.name = BATTLES[earlier].enemy.name
       /\ BATTLES[id].log # <<>>
       /\ BATTLES[id].player.current_hp # BATTLES[earlier].player.current_hp
       /\ get_result(BATTLES[id]) = "ongoing"
       /\ rolls[earlier] = 1
       /\ resp.op = "capture" /\ resp.battle_id = earlier /\ resp.code = 200

\* C22: in no reachable state are both combatants of a battle fainted at
\* once: a turn faints at most one of them, so get_result never has to choose
\* between win and lose.
C22_NeverBothFainted ==
  \A id \in DOMAIN BATTLES :
    ~(is_fainted(BATTLES[id].player) /\ is_fainted(BATTLES[id].enemy))

\* C23: every capture attempt that reaches the roll is made with a chance of
\* exactly 90: the battle is won, the enemy's current_hp is 0, and the odds
\* computed from it are neither 35 nor 88 nor 95.
C23_CaptureChanceIs90 ==
  [][\A id \in DOMAIN BATTLES :
       rolls'[id] # rolls[id]
         => /\ get_result(BATTLES[id]) = "win"
            /\ BATTLES[id].enemy.current_hp = 0
            /\ capture_chance(BATTLES[id].enemy) = 90
            /\ chance_memo[Max2(1, BATTLES[id].enemy.max_hp),
                           Max2(0, BATTLES[id].enemy.current_hp)] = 90]_vars

\* C23 witness: a capture was rolled on a won battle and the roll was above
\* the odds, so the Pokemon broke free
C23_Witness ==
  /\ resp.op = "capture" /\ resp.code = 200
  /\ ~resp.body.success
  /\ resp.battle_id \in DOMAIN BATTLES
  /\ rolls[resp.battle_id] = 1
  /\ GetCaptureResolved(BATTLES[resp.battle_id])

\* C24: if the player sends tackle on every turn, the battle is over after
\* at most 23 turns whatever the enemy chooses, because every Tackle that is
\* executed takes at least 2 HP (or all that is left) however far the
\* attack modifiers have decayed.
C24_TackleEndsBattle ==
  [][(probe.pc = "play" /\ probe.player_move = "tackle")
       => /\ probe'.turns <= 23
          /\ \/ is_fainted(probe'.battle.player)
             \/ probe'.battle.enemy.current_hp
                  <= Max2(0, probe.battle.enemy.current_hp - 2)
          /\ \/ probe'.battle.player.current_hp = probe.battle.player.current_hp
             \/ probe'.battle.player.current_hp
                  <= Max2(0, probe.battle.player.current_hp - 2)]_vars

\* C24 witness: the player sent tackle every turn, the enemy growled at it
\* more than twenty times, and the battle was won in its 21st turn
C24_Witness ==
  /\ probe.pc = "play"
  /\ probe.player_move = "tackle"
  /\ probe.turns = 21
  /\ probe.battle.player.attack_modifier.exp > 20
  /\ get_result(probe.battle) = "win"

\* C25: the turn_log of every turn resolved on an ongoing battle is not empty
\* and has exactly one line for each action executed in that turn, that is
\* for each line the turn appended to the log, whatever the two species are.
C25_OneLinePerAction ==
  [][\A id \in DOMAIN BATTLES :
       (/\ resp'.op = "turn" /\ resp'.battle_id = id /\ resp'.code = 200
        /\ get_result(BATTLES[id]) = "ongoing")
         => /\ Len(resp'.body.turn_log) >= 1
            /\ Len(resp'.body.turn_log)
                 = Len(BATTLES'[id].log) - Len(BATTLES[id].log)]_vars

====
